---- MODULE Spec2Model ----
(***************************************************************************)
(* Model of kbs/src/resource/plugin/mod.rs: the repository plugin manager. *)
(*                                                                         *)
(* RepositoryPluginManagerConfig::create_plugin_manager builds one plugin  *)
(* per entry of enabled_plugins; RepositoryPluginManager::                 *)
(* dispatch_get_request scans the plugins in insertion order, taking each  *)
(* plugin's tokio RwLock in write mode to read its name, and calls         *)
(* get_plugin_resource on the first plugin whose name matches.             *)
(*                                                                         *)
(* Strings built with format!/anyhow!/bail! are modelled as the triple     *)
(* <<prefix, argument, suffix>> of the format string around its argument.  *)
(***************************************************************************)
EXTENDS Naturals, Sequences, FiniteSets, TLC

\* ------------------------------------------------------------------ bounds
MaxEnabled == 2          \* longest enabled_plugins list explored
NumTasks == 2            \* concurrent dispatch_get_request calls

Tasks == 1..NumTasks

\* ------------------------------------------------------- the environment
\* Names returned by get_plugin_name of the compiled-in builders, in the
\* order get_plugin_builders pushes them.
get_plugin_builders == <<"nebula", "echo">>

BuilderNames == {get_plugin_builders[i] : i \in DOMAIN get_plugin_builders}

\* Names a configuration file may list: the builders' and one without builder.
ConfigNames == BuilderNames \cup {"ghost"}

\* Names a live plugin may report through RepositoryPlugin::get_name.
PluginNames == BuilderNames

\* plugin_name arguments of dispatch_get_request.
RequestNames == ConfigNames

Resources == {"foo"}
QueryStrings == {"bar=1"}

work_dir == "/tmp/x"

\* ------------------------------------------------------- values returned
Ok(v) == [ok |-> TRUE, body |-> v]
Err(e) == [ok |-> FALSE, body |-> e]

\* anyhow!("Cargo {}-plugin feature is either not set or not supported", n)
FeatureNotSet(n) ==
    <<"Cargo ", n, "-plugin feature is either not set or not supported">>

\* with_context(|| format!("Create resource plugin dir"))
CreateDirError == <<"Create resource plugin dir", "", "">>

\* bail!("Plugin {} not found", plugin_name)
PluginNotFound(n) == <<"Plugin ", n, " not found">>

\* format!("{}/{}", self.work_dir, builder.get_plugin_name())
plugin_dir(b) == <<work_dir, "/", b>>

\* Errors a builder's create_plugin may return (any anyhow::Error).
BuildErrors == {<<"create_plugin: ", "io", "">>,
                <<"create_plugin: ", "invalid config", "">>}

\* Values a plugin's get_plugin_resource may return for a request: a byte
\* payload or any anyhow::Error of the plugin's choosing.
PluginOutcomes(name, resource, query_string) ==
    {Ok(<<resource, "?", query_string>>),
     Err(<<"resolution failed", "", "">>),
     Err(<<"Plugin ", name, " not found">>)}

\* --------------------------------------------------------------- state
VARIABLES
    enabled_plugins, \* RepositoryPluginManagerConfig.enabled_plugins
    reports,         \* per builder: what get_name of its plugins returns
    dir_exists,      \* Path::new(&self.work_dir).exists()
    dir_contents,    \* the entries found under work_dir
    cpc,             \* position of create_plugin_manager
    cidx,            \* index of the enabled_plugins entry being processed
    manager,         \* the local manager.plugins being filled
    built,           \* log of the create_plugin calls made so far
    ret,             \* what create_plugin_manager returned
    lock,            \* per plugin: FIFO queue of the tasks at its RwLock
    tasks            \* the dispatch_get_request calls

vars == <<enabled_plugins, reports, dir_exists, dir_contents, cpc, cidx,
          manager, built, ret, lock, tasks>>

cfgvars == <<enabled_plugins, reports, dir_exists, dir_contents, cpc, cidx,
             manager, built, ret>>

RECURSIVE SeqsUpTo(_, _)
SeqsUpTo(S, n) ==
    IF n = 0 THEN {<<>>}
    ELSE LET shorter == SeqsUpTo(S, n - 1)
         IN shorter \cup {Append(s, x) : s \in shorter, x \in S}

NoBody == <<"", "", "">>

Pending == [status |-> "pending", plugins |-> <<>>, err |-> NoBody]

IdleTask == [pc |-> "idle", plugin_name |-> "", resource |-> "",
             query_string |-> "", idx |-> 0, requested |-> <<>>,
             invoked |-> <<>>,
             returns |-> <<>>, exit |-> "none", result |-> Err(NoBody)]

\* What the plugins of each builder report as their name: the first
\* builder's plugins report the builder's name, those of the others any
\* name (the trait does not tie get_name to get_plugin_name).
ReportMaps ==
    {m \in [BuilderNames -> PluginNames] :
        m[get_plugin_builders[1]] = get_plugin_builders[1]}

\* What an earlier run of the service may have left under work_dir.
PriorContents == {{}, {plugin_dir(get_plugin_builders[1])}}

Init ==
    /\ enabled_plugins \in SeqsUpTo(ConfigNames, MaxEnabled)
    /\ reports \in ReportMaps
    /\ dir_exists \in BOOLEAN
    /\ dir_contents \in (IF dir_exists THEN PriorContents ELSE {{}})
    /\ cpc = "start"
    /\ cidx = 0
    /\ manager = <<>>
    /\ built = <<>>
    /\ ret = Pending
    /\ lock = <<>>
    /\ tasks = [t \in Tasks |-> IdleTask]

\* ------------------------------------------------- create_plugin_manager
\* plugin_builders.iter().find(|x| x.get_plugin_name() == plugin_name):
\* index of the first builder with that name, 0 when there is none.
FindBuilder(plugin_name) ==
    LET hits == {i \in DOMAIN get_plugin_builders :
                    get_plugin_builders[i] = plugin_name}
    IN IF hits = {} THEN 0
       ELSE CHOOSE i \in hits : \A j \in hits : i <= j

\* The function returns Err(e): its locals are dropped.
Fail(e) ==
    /\ ret' = [status |-> "Err", plugins |-> <<>>, err |-> e]
    /\ cpc' = "done"
    /\ manager' = <<>>
    /\ lock' = <<>>

\* Variant of DirPresent: the directory is created without looking and
\* the creation fails on the existing one.
DirPresent_CreateFails ==
    /\ cpc = "start"
    /\ dir_exists
    /\ Fail(CreateDirError)
    /\ UNCHANGED <<enabled_plugins, reports, dir_exists, dir_contents, cidx,
                   built, tasks>>

\* Variant of BuilderNotFound: every name is resolved before any plugin is
\* built.
BuilderNotFound_UpFront ==
    /\ cpc = "loop"
    /\ cidx \in DOMAIN enabled_plugins
    /\ \E i \in DOMAIN enabled_plugins :
          /\ i >= cidx
          /\ FindBuilder(enabled_plugins[i]) = 0
          /\ Fail(FeatureNotSet(enabled_plugins[i]))
    /\ UNCHANGED <<enabled_plugins, reports, dir_exists, dir_contents, cidx,
                   built, tasks>>

\* Work directory already there: nothing to create.
DirPresent ==
    /\ cpc = "start"
    /\ dir_exists
    /\ cpc' = "loop"
    /\ cidx' = 1
    /\ UNCHANGED <<enabled_plugins, reports, dir_exists, dir_contents,
                   manager, built, ret, lock, tasks>>

\* fs::create_dir_all succeeds.
CreateDirOk ==
    /\ cpc = "start"
    /\ ~dir_exists
    /\ dir_exists' = TRUE
    /\ cpc' = "loop"
    /\ cidx' = 1
    /\ UNCHANGED <<enabled_plugins, reports, dir_contents, manager, built,
                   ret, lock, tasks>>

\* fs::create_dir_all fails: `?` returns the error with its context.
CreateDirFails ==
    /\ cpc = "start"
    /\ ~dir_exists
    /\ Fail(CreateDirError)
    /\ UNCHANGED <<enabled_plugins, reports, dir_exists, dir_contents, cidx,
                   built, tasks>>

\* The entry of enabled_plugins the loop is at.
AtEntry == cpc = "loop" /\ cidx \in DOMAIN enabled_plugins

\* A live plugin behind its Arc<RwLock<..>>: the create_plugin call that made
\* it (its identity), the builder called and the name its get_name reports.
Handle(k, b, n) == [id |-> k, builder |-> b, name |-> n]

\* What a builder that succeeds leaves on disk: its private subdirectory
\* of work_dir.
create_plugin_effect(contents, b) == contents \cup {plugin_dir(b)}

\* Variant of Push: the plugin is inserted at the front.
Push_Front(plugins, plugin) == <<plugin>> \o plugins

\* manager.plugins.push(plugin)
Push(plugins, plugin) == Append(plugins, plugin)

\* Variant of BuilderNotFound: the entry is skipped silently.
BuilderNotFound_Skip ==
    /\ AtEntry
    /\ FindBuilder(enabled_plugins[cidx]) = 0
    /\ cidx' = cidx + 1
    /\ UNCHANGED <<enabled_plugins, reports, dir_exists, dir_contents, cpc,
                   manager, built, ret, lock, tasks>>

\* find(..) yields None: ok_or(anyhow!(..))? returns the error.
BuilderNotFound ==
    /\ AtEntry
    /\ FindBuilder(enabled_plugins[cidx]) = 0
    /\ Fail(FeatureNotSet(enabled_plugins[cidx]))
    /\ UNCHANGED <<enabled_plugins, reports, dir_exists, dir_contents, cidx,
                   built, tasks>>

\* Variant of CreatePluginFails: the failing plugin is left out and the
\* loop goes on.
CreatePluginFails_Skip ==
    /\ AtEntry
    /\ FindBuilder(enabled_plugins[cidx]) # 0
    /\ LET b == get_plugin_builders[FindBuilder(enabled_plugins[cidx])]
       IN \E e \in BuildErrors :
            built' = Append(built, [dir |-> plugin_dir(b), ok |-> FALSE,
                                    err |-> e])
    /\ cidx' = cidx + 1
    /\ UNCHANGED <<enabled_plugins, reports, dir_exists, dir_contents, cpc,
                   manager, ret, lock, tasks>>

\* builder.create_plugin(plugin_dir)? fails: the error is returned.
CreatePluginFails ==
    /\ AtEntry
    /\ FindBuilder(enabled_plugins[cidx]) # 0
    /\ LET b == get_plugin_builders[FindBuilder(enabled_plugins[cidx])]
       IN \E e \in BuildErrors :
            /\ built' = Append(built, [dir |-> plugin_dir(b), ok |-> FALSE,
                                       err |-> e])
            /\ Fail(e)
    /\ UNCHANGED <<enabled_plugins, reports, dir_exists, dir_contents, cidx,
                   tasks>>

\* builder.create_plugin(plugin_dir) succeeds: the plugin is pushed.
CreatePluginOk ==
    /\ AtEntry
    /\ FindBuilder(enabled_plugins[cidx]) # 0
    /\ LET b == get_plugin_builders[FindBuilder(enabled_plugins[cidx])]
       IN /\ built' = Append(built, [dir |-> plugin_dir(b), ok |-> TRUE,
                                     err |-> NoBody])
          /\ manager' = Push(manager,
                              Handle(Len(built) + 1, b, reports[b]))
          /\ dir_contents' = create_plugin_effect(dir_contents, b)
    /\ lock' = Append(lock, <<>>)
    /\ cidx' = cidx + 1
    /\ UNCHANGED <<enabled_plugins, reports, dir_exists, cpc, ret, tasks>>

\* The loop is over: Ok(Arc::new(RwLock::new(manager))).
ReturnManager ==
    /\ cpc = "loop"
    /\ cidx > Len(enabled_plugins)
    /\ ret' = [status |-> "Ok", plugins |-> manager, err |-> NoBody]
    /\ manager' = <<>>
    /\ cpc' = "done"
    /\ UNCHANGED <<enabled_plugins, reports, dir_exists, dir_contents, cidx,
                   built, lock, tasks>>

create_plugin_manager ==
    \/ DirPresent
    \/ CreateDirOk
    \/ CreateDirFails
    \/ BuilderNotFound
    \/ CreatePluginFails
    \/ CreatePluginOk
    \/ ReturnManager

\* ------------------------------------------------- dispatch_get_request
\* self.plugins of the manager the dispatch calls run on.
plugins == ret.plugins

Set(t, r) == tasks' = [tasks EXCEPT ![t] = r]

\* Variant of Release: the task stays in the queue.
Release_Noop(i, t) == lock' = lock

\* The task leaves the queue of plugin i's lock (its guard or its pending
\* write() future is dropped).
Release(i, t) ==
    lock' = [lock EXCEPT ![i] = SelectSeq(@, LAMBDA u : u # t)]

\* Variant of Call: the scan starts at the second plugin.
Call_SkipFirst(t) ==
    /\ ret.status = "Ok"
    /\ tasks[t].pc = "idle"
    /\ \A u \in Tasks : u < t => tasks[u].pc # "idle"
    /\ \E n \in RequestNames, r \in Resources, q \in QueryStrings :
         Set(t, [tasks[t] EXCEPT !.pc = "scan", !.plugin_name = n,
                                 !.resource = r, !.query_string = q,
                                 !.idx = 2])
    /\ UNCHANGED <<cfgvars, lock>>

\* A caller invokes dispatch_get_request on the manager. The calls are
\* numbered in the order they are made.
Call(t) ==
    /\ ret.status = "Ok"
    /\ tasks[t].pc = "idle"
    /\ \A u \in Tasks : u < t => tasks[u].pc # "idle"
    /\ \E n \in RequestNames, r \in Resources, q \in QueryStrings :
         Set(t, [tasks[t] EXCEPT !.pc = "scan", !.plugin_name = n,
                                 !.resource = r, !.query_string = q,
                                 !.idx = 1])
    /\ UNCHANGED <<cfgvars, lock>>

\* self.plugins.iter() yields the next plugin; plugin.write() is polled and
\* the task joins the lock's FIFO queue.
RequestLock(t) ==
    /\ tasks[t].pc = "scan"
    /\ tasks[t].idx \in DOMAIN plugins
    /\ lock' = [lock EXCEPT ![tasks[t].idx] = Append(@, t)]
    /\ Set(t, [tasks[t] EXCEPT !.pc = "waiting",
                               !.requested = Append(@, tasks[t].idx)])
    /\ UNCHANGED cfgvars

\* Variant of Bail: a miss yields an empty success.
Bail_EmptySuccess(t) ==
    /\ tasks[t].pc = "scan"
    /\ tasks[t].idx \notin DOMAIN plugins
    /\ Set(t, [tasks[t] EXCEPT !.pc = "done", !.exit = "bail",
                               !.result = Ok(NoBody)])
    /\ UNCHANGED <<cfgvars, lock>>

\* The iterator is exhausted: bail!("Plugin {} not found", plugin_name).
Bail(t) ==
    /\ tasks[t].pc = "scan"
    /\ tasks[t].idx \notin DOMAIN plugins
    /\ Set(t, [tasks[t] EXCEPT !.pc = "done", !.exit = "bail",
                 !.result = Err(PluginNotFound(tasks[t].plugin_name))])
    /\ UNCHANGED <<cfgvars, lock>>

\* Variant of Grant: the lock is granted whoever holds it.
Grant_NoExclusion(t) ==
    /\ tasks[t].pc = "waiting"
    /\ Set(t, [tasks[t] EXCEPT !.pc = "locked"])
    /\ UNCHANGED <<cfgvars, lock>>

\* Variant of Grant: one lock for all plugins.
Grant_GlobalLock(t) ==
    /\ tasks[t].pc = "waiting"
    /\ Head(lock[tasks[t].idx]) = t
    /\ \A u \in Tasks \ {t} : tasks[u].pc \notin {"locked", "resolve"}
    /\ Set(t, [tasks[t] EXCEPT !.pc = "locked"])
    /\ UNCHANGED <<cfgvars, lock>>

\* plugin.write().await completes: the task is first in the lock's queue,
\* so no other task holds the lock.
Grant(t) ==
    /\ tasks[t].pc = "waiting"
    /\ Head(lock[tasks[t].idx]) = t
    /\ Set(t, [tasks[t] EXCEPT !.pc = "locked"])
    /\ UNCHANGED <<cfgvars, lock>>

\* Variant of IsMatch: the last plugin of that name wins.
IsMatch_Last(plugin_name, i) ==
    /\ plugin_name = plugins[i].name
    /\ \A j \in DOMAIN plugins : j > i => plugins[j].name # plugin_name

\* *plugin_name == *p.get_name().await
IsMatch(plugin_name, i) == plugin_name = plugins[i].name

\* Variant of NameDiffers: the guard is kept while the scan moves on.
NameDiffers_KeepLock(t) ==
    /\ tasks[t].pc = "locked"
    /\ ~IsMatch(tasks[t].plugin_name, tasks[t].idx)
    /\ Set(t, [tasks[t] EXCEPT !.pc = "scan", !.idx = @ + 1])
    /\ UNCHANGED <<cfgvars, lock>>

\* Variant of NameDiffers: the scan steps over the next plugin.
NameDiffers_SkipOne(t) ==
    /\ tasks[t].pc = "locked"
    /\ ~IsMatch(tasks[t].plugin_name, tasks[t].idx)
    /\ Release(tasks[t].idx, t)
    /\ Set(t, [tasks[t] EXCEPT !.pc = "scan", !.idx = @ + 2])
    /\ UNCHANGED cfgvars

\* The names differ: the guard p is dropped at the end of the iteration.
NameDiffers(t) ==
    /\ tasks[t].pc = "locked"
    /\ ~IsMatch(tasks[t].plugin_name, tasks[t].idx)
    /\ Release(tasks[t].idx, t)
    /\ Set(t, [tasks[t] EXCEPT !.pc = "scan", !.idx = @ + 1])
    /\ UNCHANGED cfgvars

\* The names are equal: p.get_plugin_resource(resource, query_string) is
\* called with the guard held.
NameEquals(t) ==
    /\ tasks[t].pc = "locked"
    /\ IsMatch(tasks[t].plugin_name, tasks[t].idx)
    /\ Set(t, [tasks[t] EXCEPT !.pc = "resolve",
                               !.invoked = Append(@, tasks[t].idx)])
    /\ UNCHANGED <<cfgvars, lock>>

\* Variant of ResolveReturns: on a failure the scan goes on to the later
\* plugins.
ResolveReturns_FallThrough(t) ==
    /\ tasks[t].pc = "resolve"
    /\ \E o \in PluginOutcomes(plugins[tasks[t].idx].name,
                               tasks[t].resource, tasks[t].query_string) :
         IF o.ok
         THEN Set(t, [tasks[t] EXCEPT !.pc = "done", !.exit = "return",
                        !.returns = Append(@, [h |-> tasks[t].idx, out |-> o]),
                        !.result = o])
         ELSE Set(t, [tasks[t] EXCEPT !.pc = "scan", !.idx = @ + 1,
                        !.returns = Append(@, [h |-> tasks[t].idx,
                                               out |-> o])])
    /\ Release(tasks[t].idx, t)
    /\ UNCHANGED cfgvars

\* Variant of ResolveReturns: a failure leaves the guard held.
ResolveReturns_LeakOnError(t) ==
    /\ tasks[t].pc = "resolve"
    /\ \E o \in PluginOutcomes(plugins[tasks[t].idx].name,
                               tasks[t].resource, tasks[t].query_string) :
         /\ Set(t, [tasks[t] EXCEPT !.pc = "done", !.exit = "return",
                                    !.returns = Append(@, [h |-> tasks[t].idx,
                                                           out |-> o]),
                                    !.result = o])
         /\ IF o.ok THEN Release(tasks[t].idx, t) ELSE lock' = lock
    /\ UNCHANGED cfgvars

\* Variant of ResolveReturns: a plugin that fails is removed from the
\* manager.
ResolveReturns_EvictOnError(t) ==
    /\ tasks[t].pc = "resolve"
    /\ \E o \in PluginOutcomes(plugins[tasks[t].idx].name,
                               tasks[t].resource, tasks[t].query_string) :
         /\ Set(t, [tasks[t] EXCEPT !.pc = "done", !.exit = "return",
                                    !.returns = Append(@, [h |-> tasks[t].idx,
                                                           out |-> o]),
                                    !.result = o])
         /\ ret' = IF o.ok THEN ret
                   ELSE [ret EXCEPT !.plugins =
                            SubSeq(@, 1, tasks[t].idx - 1)
                            \o SubSeq(@, tasks[t].idx + 1, Len(@))]
    /\ Release(tasks[t].idx, t)
    /\ UNCHANGED <<enabled_plugins, reports, dir_exists, dir_contents, cpc,
                   cidx, manager, built>>

\* get_plugin_resource completes: `return` hands its value to the caller
\* and drops the guard.
ResolveReturns(t) ==
    /\ tasks[t].pc = "resolve"
    /\ \E o \in PluginOutcomes(plugins[tasks[t].idx].name,
                               tasks[t].resource, tasks[t].query_string) :
         Set(t, [tasks[t] EXCEPT !.pc = "done", !.exit = "return",
                                 !.returns = Append(@, [h |-> tasks[t].idx,
                                                        out |-> o]),
                                 !.result = o])
    /\ Release(tasks[t].idx, t)
    /\ UNCHANGED cfgvars

\* A dropped call: its locals are gone; idx keeps the plugin it was at.
AbandonedTask(i) == [IdleTask EXCEPT !.pc = "abandoned", !.idx = i]

\* Variant of Abandon: the dropped future keeps its place at the lock.
Abandon_Leak(t) ==
    /\ tasks[t].pc \in {"waiting", "locked", "resolve"}
    /\ Set(t, AbandonedTask(tasks[t].idx))
    /\ UNCHANGED <<cfgvars, lock>>

\* The caller stops awaiting and drops the future at one of its .await
\* points (lines 96, 98, 99): the pending write() leaves the lock's queue,
\* or the guard p is dropped.
Abandon(t) ==
    /\ tasks[t].pc \in {"waiting", "locked", "resolve"}
    /\ Release(tasks[t].idx, t)
    /\ Set(t, AbandonedTask(tasks[t].idx))
    /\ UNCHANGED cfgvars

dispatch_get_request(t) ==
    \/ Call(t)
    \/ RequestLock(t)
    \/ Bail(t)
    \/ Grant(t)
    \/ NameDiffers(t)
    \/ NameEquals(t)
    \/ ResolveReturns(t)
    \/ Abandon(t)

Next ==
    \/ create_plugin_manager
    \/ \E t \in Tasks : dispatch_get_request(t)

Spec == Init /\ [][Next]_vars

\* The steps dispatch_get_request takes by itself once called. The executor
\* keeps polling a task that can run, the plugin's get_name and
\* get_plugin_resource are assumed to terminate, and tokio's RwLock serves
\* its waiters first come, first served; the caller's choices (Call,
\* Abandon) are not forced.
Progress(t) ==
    \/ RequestLock(t)
    \/ Bail(t)
    \/ Grant(t)
    \/ NameDiffers(t)
    \/ NameEquals(t)
    \/ ResolveReturns(t)

\* Configurations kept to the discipline the plugins are written for: no
\* name listed twice, and every plugin reporting its builder's name.
FairInit ==
    /\ Init
    /\ \A i, j \in DOMAIN enabled_plugins :
          i # j => enabled_plugins[i] # enabled_plugins[j]
    /\ \A b \in BuilderNames : reports[b] = b

FairSpec ==
    FairInit /\ [][Next]_vars /\ \A t \in Tasks : WF_vars(Progress(t))

\* =================================================================
\* Properties of create_plugin_manager
\* =================================================================

\* Some configured name has no compiled-in builder.
HasUnknown ==
    \E i \in DOMAIN enabled_plugins : FindBuilder(enabled_plugins[i]) = 0

\* C1: when enabled_plugins contains a name without builder, at whatever
\* position, create_plugin_manager never returns a manager, and once it
\* has returned it has returned an error and no plugins.
C1_UnknownNameFails ==
    HasUnknown =>
        /\ ret.status # "Ok"
        /\ cpc = "done" => (ret.status = "Err" /\ ret.plugins = <<>>)

\* The unknown name comes after a valid one that was built, and the call
\* has returned the error naming it.
C1_Witness ==
    /\ cpc = "done"
    /\ Len(enabled_plugins) >= 2
    /\ FindBuilder(enabled_plugins[1]) # 0
    /\ FindBuilder(enabled_plugins[2]) = 0
    /\ Len(built) = 1
    /\ ret.err = FeatureNotSet(enabled_plugins[2])

\* C2: as soon as a create_plugin call has failed, create_plugin_manager
\* has returned that very error and no manager, whatever the position of
\* the failing plugin.
C2_BuildFailureAborts ==
    \A i \in DOMAIN built :
        ~built[i].ok =>
            /\ cpc = "done"
            /\ ret.status = "Err"
            /\ ret.err = built[i].err
            /\ ret.plugins = <<>>

\* The second create_plugin call fails after a plugin was built.
C2_Witness ==
    /\ Len(built) = 2
    /\ built[1].ok
    /\ ~built[2].ok
    /\ ret.status = "Err"

\* C3: a returned manager has one plugin per entry of enabled_plugins, and
\* its i-th plugin is the one made by the i-th create_plugin call, on the
\* builder named enabled_plugins[i], in directory work_dir/<name>.
C3_OrderPreserved ==
    ret.status = "Ok" =>
        /\ Len(ret.plugins) = Len(enabled_plugins)
        /\ \A i \in DOMAIN ret.plugins :
              /\ ret.plugins[i].builder = enabled_plugins[i]
              /\ ret.plugins[i].id = i
              /\ built[i].dir = plugin_dir(enabled_plugins[i])

\* A manager was returned for a list naming different builders.
C3_Witness ==
    /\ ret.status = "Ok"
    /\ Len(ret.plugins) = 2
    /\ enabled_plugins[1] # enabled_plugins[2]

\* =================================================================
\* Properties of dispatch_get_request
\* =================================================================

\* Position of the first plugin, in insertion order, whose get_name equals
\* n; 0 when no plugin reports that name.
FirstMatch(n) ==
    LET hits == {i \in DOMAIN plugins : plugins[i].name = n}
    IN IF hits = {} THEN 0
       ELSE CHOOSE i \in hits : \A j \in hits : i <= j

Done(t) == tasks[t].pc = "done"

\* C4: a dispatch only ever invokes get_plugin_resource on the first plugin
\* whose name equals plugin_name, and when such a plugin exists the call
\* returns what that plugin returned for (resource, query_string).
C4_FirstMatchAnswers ==
    \A t \in Tasks :
        LET f == FirstMatch(tasks[t].plugin_name)
        IN /\ \A k \in DOMAIN tasks[t].invoked : tasks[t].invoked[k] = f
           /\ (Done(t) /\ f # 0) =>
                \E k \in DOMAIN tasks[t].returns :
                    /\ tasks[t].returns[k].h = f
                    /\ tasks[t].returns[k].out = tasks[t].result
                    /\ tasks[t].returns[k].out \in
                          PluginOutcomes(plugins[f].name, tasks[t].resource,
                                         tasks[t].query_string)

\* A dispatch returned a plugin's value while two plugins report the
\* requested name.
C4_Witness ==
    \E t \in Tasks :
        /\ Done(t)
        /\ tasks[t].exit = "return"
        /\ tasks[t].result.ok
        /\ Len(plugins) = 2
        /\ plugins[1].name = tasks[t].plugin_name
        /\ plugins[2].name = tasks[t].plugin_name

\* C5: a dispatch ends at bail!("Plugin {} not found") exactly when no
\* plugin reports a name equal to plugin_name; it has then invoked no
\* get_plugin_resource and returns the not-found error, not a success.
C5_MissIffNoMatch ==
    \A t \in Tasks :
        Done(t) =>
            /\ tasks[t].exit = "bail" <=> FirstMatch(tasks[t].plugin_name) = 0
            /\ tasks[t].exit = "bail" =>
                  /\ tasks[t].invoked = <<>>
                  /\ ~tasks[t].result.ok
                  /\ tasks[t].result =
                        Err(PluginNotFound(tasks[t].plugin_name))

\* A dispatch missed after scanning a non-empty plugin list.
C5_Witness ==
    \E t \in Tasks :
        /\ Done(t)
        /\ tasks[t].exit = "bail"
        /\ Len(plugins) >= 2

\* The task holds the write guard of the plugin it is at.
Holds(t) == tasks[t].pc \in {"locked", "resolve"}

\* C6: at most one task holds a plugin's write guard, so at most one is
\* inside get_plugin_resource of that plugin; the holder is the head of the
\* lock's queue from the name read until the resolution returns.
C6_MutualExclusion ==
    /\ \A t1, t2 \in Tasks :
          (t1 # t2 /\ Holds(t1) /\ Holds(t2)) => tasks[t1].idx # tasks[t2].idx
    /\ \A t \in Tasks :
          Holds(t) => (/\ lock[tasks[t].idx] # <<>>
                       /\ Head(lock[tasks[t].idx]) = t)

\* Two dispatches for the same plugin name: one resolving, the other
\* waiting for that plugin's lock.
C6_Witness ==
    \E t1, t2 \in Tasks :
        /\ tasks[t1].pc = "resolve"
        /\ tasks[t2].pc = "waiting"
        /\ tasks[t1].idx = tasks[t2].idx
        /\ tasks[t1].plugin_name = tasks[t2].plugin_name

\* C7 (as claimed): a task waiting behind a resolution in progress targets
\* the plugin being resolved; a dispatch for another plugin never waits
\* for it.
C7_NoCrossPluginWait ==
    \A t1, t2 \in Tasks :
        (/\ tasks[t1].pc = "resolve"
         /\ tasks[t2].pc = "waiting"
         /\ tasks[t2].idx = tasks[t1].idx)
            => FirstMatch(tasks[t2].plugin_name) = tasks[t1].idx

\* C8: a resolution or name read in progress on one plugin never keeps
\* another plugin's lock from being granted (there is one lock per plugin),
\* and the holder of a matching plugin's lock can always enter
\* get_plugin_resource; so dispatches for two names can overlap.
C8_OtherPluginLockGrantable ==
    \A t1, t2 \in Tasks :
        /\ (/\ t1 # t2
            /\ Holds(t1)
            /\ tasks[t2].pc = "waiting"
            /\ tasks[t2].idx # tasks[t1].idx
            /\ Head(lock[tasks[t2].idx]) = t2) => ENABLED Grant(t2)
        /\ (/\ t1 # t2
            /\ tasks[t1].pc = "resolve"
            /\ tasks[t2].pc = "locked"
            /\ IsMatch(tasks[t2].plugin_name, tasks[t2].idx))
               => ENABLED NameEquals(t2)

\* Two dispatches, one per name, are inside get_plugin_resource at once on
\* a manager with two plugins of different names.
C8_Witness ==
    \E t1, t2 \in Tasks :
        /\ Len(plugins) = 2
        /\ plugins[1].name # plugins[2].name
        /\ tasks[t1].pc = "resolve"
        /\ tasks[t2].pc = "resolve"
        /\ tasks[t1].plugin_name # tasks[t2].plugin_name

\* C9 (as claimed): the value returned when the matched plugin's
\* get_plugin_resource fails is never the value the same call would have
\* returned for a miss.
C9_ErrorKindsDistinct ==
    \A t \in Tasks :
        (Done(t) /\ tasks[t].exit = "return" /\ ~tasks[t].result.ok)
            => tasks[t].result # Err(PluginNotFound(tasks[t].plugin_name))

\* C10: a dispatch invokes get_plugin_resource at most once, exactly once
\* by the time it is done when a plugin matches and never otherwise, and
\* what it returns then is what that single invocation returned, failure
\* included.
C10_SingleInvocation ==
    \A t \in Tasks :
        /\ Len(tasks[t].invoked) <= 1
        /\ Len(tasks[t].returns) <= Len(tasks[t].invoked)
        /\ Done(t) =>
              /\ Len(tasks[t].invoked) =
                    (IF FirstMatch(tasks[t].plugin_name) # 0 THEN 1 ELSE 0)
              /\ Len(tasks[t].returns) = Len(tasks[t].invoked)
              /\ tasks[t].returns # <<>> =>
                    (/\ tasks[t].exit = "return"
                     /\ tasks[t].result = tasks[t].returns[1].out)

\* A dispatch returned its plugin's failure although a later plugin
\* reports the same name.
C10_Witness ==
    \E t \in Tasks :
        /\ Done(t)
        /\ ~tasks[t].result.ok
        /\ tasks[t].invoked # <<>>
        /\ \E j \in DOMAIN plugins :
              /\ j > tasks[t].invoked[1]
              /\ plugins[j].name = tasks[t].plugin_name

\* =================================================================
\* Locks, errors and cancellation
\* =================================================================

\* Task t is in the queue of plugin i's lock, holding it or waiting for it.
InQueue(t, i) == \E k \in DOMAIN lock[i] : lock[i][k] = t

Live(t) == tasks[t].pc \in {"waiting", "locked", "resolve"}

\* C11: a dispatch that has returned an error, a miss or a plugin failure,
\* is in no lock's queue any more, and what every lock's queue holds are
\* only calls still at that plugin, so the failed call is in nobody's way.
C11_ErrorReleasesLocks ==
    /\ \A t \in Tasks :
          (Done(t) /\ ~tasks[t].result.ok) =>
              \A i \in DOMAIN lock : ~InQueue(t, i)
    /\ (\E t \in Tasks : Done(t) /\ ~tasks[t].result.ok) =>
          \A i \in DOMAIN lock : \A k \in DOMAIN lock[i] :
              Live(lock[i][k]) /\ tasks[lock[i][k]].idx = i

\* A dispatch got a plugin's failure and another one is now inside
\* get_plugin_resource of the same plugin.
C11_Witness ==
    \E t, u \in Tasks :
        /\ Done(t)
        /\ ~tasks[t].result.ok
        /\ tasks[t].exit = "return"
        /\ tasks[u].pc = "resolve"
        /\ tasks[u].idx = tasks[t].idx

\* C12 (as claimed): a returned manager never has two plugins of the same
\* name.
C12_UniqueNames ==
    ret.status = "Ok" =>
        \A i, j \in DOMAIN ret.plugins :
            i # j => ret.plugins[i].name # ret.plugins[j].name

\* C13: once create_plugin_manager has returned, no step changes what it
\* returned: the plugins, their order, their identity and their locks stay.
C13_RegistryFrozen ==
    [][cpc = "done" =>
          /\ ret' = ret
          /\ Len(lock') = Len(lock)
          /\ built' = built]_vars

\* Dispatches of both failing kinds have run on a manager of two plugins.
C13_Witness ==
    \E t, u \in Tasks :
        /\ Len(plugins) = 2
        /\ Done(t)
        /\ tasks[t].exit = "bail"
        /\ Done(u)
        /\ tasks[u].exit = "return"
        /\ ~tasks[u].result.ok

\* C14: when work_dir exists, the directory step of create_plugin_manager
\* goes on to the loop without failing and without touching the contents
\* of work_dir; nothing the run does later removes an entry either.
C14_ExistingDirUntouched ==
    [][/\ (cpc = "start" /\ dir_exists) =>
              /\ cpc' = "loop"
              /\ dir_exists'
              /\ dir_contents' = dir_contents
              /\ ret' = ret
       /\ dir_contents \subseteq dir_contents']_vars

\* A run on an existing work_dir returned a manager and the entry left by
\* the earlier run, which this run does not build, is still there.
C14_Witness ==
    /\ ret.status = "Ok"
    /\ enabled_plugins = <<get_plugin_builders[2]>>
    /\ plugin_dir(get_plugin_builders[1]) \in dir_contents

C16_AbandonIsClean ==
    [][\A t \in Tasks :
          (tasks[t].pc # "abandoned" /\ tasks'[t].pc = "abandoned") =>
              /\ ret' = ret
              /\ \A i \in DOMAIN lock :
                    lock'[i] = SelectSeq(lock[i], LAMBDA u : u # t)
              /\ \A u \in Tasks \ {t} : tasks'[u] = tasks[u]
              /\ \A i \in DOMAIN lock :
                    lock'[i] # <<>> => Live(Head(lock'[i]))]_vars

\* A dispatch was abandoned at the second plugin, where another call is
\* now inside get_plugin_resource.
C16_Witness ==
    \E t, u \in Tasks :
        /\ tasks[t].pc = "abandoned"
        /\ tasks[t].idx = 2
        /\ tasks[u].pc = "resolve"
        /\ tasks[u].idx = 2

\* C17: a dispatch is in the queue of at most one lock, the one of the
\* plugin it is at, and in none between two iterations; the first task of
\* every queue can take its next step without any other lock, so the
\* dispatches cannot deadlock on each other.
C17_OneLockAtATime ==
    /\ \A t \in Tasks :
          /\ \A i, j \in DOMAIN lock :
                (InQueue(t, i) /\ InQueue(t, j)) => i = j
          /\ \A i \in DOMAIN lock :
                InQueue(t, i) => (Live(t) /\ tasks[t].idx = i)
    /\ \A i \in DOMAIN lock :
          lock[i] # <<>> =>
              LET h == Head(lock[i])
              IN ENABLED (\/ Grant(h)
                          \/ NameDiffers(h)
                          \/ NameEquals(h)
                          \/ ResolveReturns(h))

\* A dispatch that has let go of the first plugin's lock waits for the
\* second plugin's lock, held by another call.
C17_Witness ==
    \E t, u \in Tasks :
        /\ tasks[t].pc = "waiting"
        /\ tasks[t].requested = <<1, 2>>
        /\ Holds(u)
        /\ tasks[u].idx = 2
        /\ lock[1] = <<>>

\* C18: under FairSpec every dispatch that was called ends: it returns a
\* payload, a resolution error or the not-found error, unless its caller
\* abandons it.
C18_EveryCallReturns ==
    \A t \in Tasks :
        (tasks[t].pc \in {"scan", "waiting", "locked", "resolve"})
            ~> (tasks[t].pc \in {"done", "abandoned"})

\* All the dispatches, called for the same plugin, have returned what the
\* plugin gave them.
C18_Witness ==
    /\ \A t \in Tasks : Done(t) /\ tasks[t].exit = "return"
    /\ \A t, u \in Tasks : tasks[t].plugin_name = tasks[u].plugin_name

\* C19: create_plugin calls are made one entry at a time, each in
\* work_dir/<name> of its entry, and only the last one made can have
\* failed. When create_plugin_manager fails at entry k (the entry cidx it
\* was at), the entries before k were built and what they left on disk is
\* still there, entry k is the one the error is about, and no entry after
\* k was looked at.
C19_BuildsInterleaved ==
    /\ \A i \in DOMAIN built :
          /\ i \in DOMAIN enabled_plugins
          /\ built[i].dir = plugin_dir(enabled_plugins[i])
          /\ i < Len(built) => built[i].ok
    /\ (cpc = "done" /\ ret.status = "Err" /\ ret.err # CreateDirError) =>
          /\ cidx \in DOMAIN enabled_plugins
          /\ \A i \in 1..(cidx - 1) :
                /\ built[i].ok
                /\ plugin_dir(enabled_plugins[i]) \in dir_contents
          /\ IF FindBuilder(enabled_plugins[cidx]) = 0
             THEN /\ ret.err = FeatureNotSet(enabled_plugins[cidx])
                  /\ Len(built) = cidx - 1
             ELSE /\ Len(built) = cidx
                  /\ ~built[cidx].ok
                  /\ ret.err = built[cidx].err

\* The second entry has no builder; the first was built in a work_dir that
\* held nothing and its subdirectory is what the failed run leaves.
C19_Witness ==
    /\ cpc = "done"
    /\ ret.status = "Err"
    /\ cidx = 2
    /\ FindBuilder(enabled_plugins[2]) = 0
    /\ dir_contents = {plugin_dir(enabled_plugins[1])}
    /\ enabled_plugins[1] = get_plugin_builders[2]

\* Every plugin reports the name of the builder that made it.
NamesAgree ==
    \A i \in DOMAIN plugins : plugins[i].name = plugins[i].builder

\* The name is listed in enabled_plugins.
Listed(n) == \E i \in DOMAIN enabled_plugins : enabled_plugins[i] = n

\* C20: on a returned manager whose plugins all report their builder's
\* name, a dispatch for a name listed in enabled_plugins never ends at
\* bail!("Plugin {} not found").
C20_ListedNameFound ==
    (ret.status = "Ok" /\ NamesAgree) =>
        \A t \in Tasks :
            (Done(t) /\ Listed(tasks[t].plugin_name)) =>
                /\ tasks[t].exit = "return"
                /\ FirstMatch(tasks[t].plugin_name) # 0

\* A dispatch for the second listed name returned on a manager whose
\* plugins report their builders' names.
C20_Witness ==
    \E t \in Tasks :
        /\ ret.status = "Ok"
        /\ NamesAgree
        /\ Len(plugins) = 2
        /\ Done(t)
        /\ tasks[t].plugin_name = enabled_plugins[2]
        /\ enabled_plugins[1] # enabled_plugins[2]

\* The names disagree and a dispatch for a listed name missed.
C20_MismatchMisses ==
    \E t \in Tasks :
        /\ ret.status = "Ok"
        /\ ~NamesAgree
        /\ Done(t)
        /\ Listed(tasks[t].plugin_name)
        /\ tasks[t].exit = "bail"

====
